---- MODULE Spec2Model ----
(***************************************************************************)
(* A model of mutagen/m4a.py: the atom tree reader (Atom, Atoms), the      *)
(* stream-information reader (M4AInfo), the tag codec (M4ATags) and the    *)
(* loader (M4A.__init__).  Files, strings and rendered tags are sequences  *)
(* of bytes (0..255); every reader works on the bytes.                     *)
(***************************************************************************)
EXTENDS Integers, Sequences, FiniteSets, TLC

VARIABLES
    data,     \* the bytes of the open file (fileobj)
    pos,      \* fileobj.tell()
    stack,    \* the Atom constructions in progress (containers reading children)
    atoms,    \* Atoms.atoms: the top-level atoms, in the order encountered
    ret,      \* <<a>>: the Atom the previous step's constructor returned; else <<>>
    pc,       \* the operation in progress
    err,      \* the exception that ended the operation in pc ("" = none)
    info,     \* <<[length, unit]>>: the operands of M4AInfo.length; <<>> = not set
    tags,     \* the tag mapping: a sequence of [key, value] in iteration order
    todo,     \* the ilst children M4ATags.__init__ has still to decode
    last,     \* M4ATags.__init__'s local `last`: the code of the atom just decoded
    values,   \* M4ATags.__render's local `values`: the blocks rendered so far
    pending,  \* the entries M4ATags.__render has still to render
    out,      \* <<b>>: the byte string __render returned; <<>> = none yet
    input,    \* what the run started from (a file, a tag mapping, an mdhd header)
    first     \* <<b>>: the byte string of the first rendering of a round trip

vars == <<data, pos, stack, atoms, ret, pc, err, info, tags, todo, last,
          values, pending, out, input, first>>

-----------------------------------------------------------------------------
(* Bounds of the model *)

MaxBoxes == 3
MaxAtoms == 4
MaxTags == 2

-----------------------------------------------------------------------------
(* Bytes *)

Min(a, b) == IF a < b THEN a ELSE b

\* Python's s[a:b] for 0 <= a (0-based, half open, clamped to the string)
Slice(s, a, b) == SubSeq(s, a + 1, Min(b, Len(s)))

\* Python's s[a:]
From(s, a) == SubSeq(s, a + 1, Len(s))

\* file.read(n) at position p: n bytes, fewer at the end of the file, and
\* everything up to the end of the file when n is negative
Read(bytes, p, n) == IF n < 0 THEN From(bytes, p) ELSE Slice(bytes, p, p + n)

RECURSIVE UnpackBE(_)
\* struct.unpack of one big-endian unsigned integer (">I", ">H", ">Q")
UnpackBE(bs) ==
    IF bs = <<>> THEN 0
    ELSE 256 * UnpackBE(SubSeq(bs, 1, Len(bs) - 1)) + bs[Len(bs)]

RECURSIVE PackBE(_, _)
\* struct.pack of one big-endian unsigned integer in w bytes
PackBE(n, w) ==
    IF w = 0 THEN <<>> ELSE PackBE(n \div 256, w - 1) \o <<n % 256>>

RECURSIVE Join(_)
\* "".join(list)
Join(list) == IF list = <<>> THEN <<>> ELSE Head(list) \o Join(Tail(list))

RECURSIVE Zeros(_)
Zeros(n) == IF n = 0 THEN <<>> ELSE <<0>> \o Zeros(n - 1)

\* The 4-byte codes, as their bytes
moov == <<109, 111, 111, 118>>
udta == <<117, 100, 116, 97>>
trak == <<116, 114, 97, 107>>
mdia == <<109, 100, 105, 97>>
meta == <<109, 101, 116, 97>>
ilst == <<105, 108, 115, 116>>
mdhd == <<109, 100, 104, 100>>
free == <<102, 114, 101, 101>>
dataCode == <<100, 97, 116, 97>>
meanCode == <<109, 101, 97, 110>>
nameCode == <<110, 97, 109, 101>>
freeform == <<45, 45, 45, 45>>
trkn == <<116, 114, 107, 110>>
disk == <<100, 105, 115, 107>>
gnre == <<103, 110, 114, 101>>
tmpo == <<116, 109, 112, 111>>
cpil == <<99, 112, 105, 108>>
covr == <<99, 111, 118, 114>>
gen == <<169, 103, 101, 110>>
nam == <<169, 110, 97, 109>>
colon == <<58>>

-----------------------------------------------------------------------------
(* Atom, Atoms *)

_CONTAINERS == {moov, udta, trak, mdia, meta, ilst}

\* _SKIP_SIZE.get(name, 0)
_SKIP_SIZE(name) == IF name = meta THEN 4 ELSE 0

\* a mutation: the seek of a leaf is relative to the cursor (whence 1)
LeafSeek_Relative(offset, length) == offset + 8 + length

\* fileobj.seek(self.offset + self.length, 0): the cursor after a leaf
LeafSeek(offset, length) == offset + length

\* a mutation: the child loop runs while tell() <= offset + length
InContainer_Inclusive(p, frame) == p <= frame.offset + frame.length

\* while fileobj.tell() < self.offset + self.length
InContainer(p, frame) == p < frame.offset + frame.length

\* while fileobj.tell() < end
InFile(p) == p < Len(data)

NewAtom(offset, length, name, leaf, children) ==
    [offset |-> offset, length |-> length, name |-> name,
     leaf |-> leaf, children |-> children]

\* the list the Atom under construction is appended to, and the append
Siblings == IF stack = <<>> THEN atoms ELSE stack[Len(stack)].children

\* Atom(fileobj) is called: the loop of the caller says so
Constructing ==
    /\ pc = "Atoms"
    /\ err = ""
    /\ IF stack = <<>> THEN InFile(pos) ELSE InContainer(pos, stack[Len(stack)])
    /\ Len(Siblings) < MaxAtoms

\* Atom.__init__ up to its first child or, for a leaf, to its return
AtomInit ==
    /\ Constructing
    /\ LET offset == pos
           header == Read(data, pos, 8)
           length == UnpackBE(Slice(header, 0, 4))
           name == Slice(header, 4, 8)
       IN  IF Len(header) < 8
           THEN /\ err' = "struct.error"
                /\ pos' = pos + Len(header)
                /\ ret' = <<>>
                /\ UNCHANGED <<stack, atoms>>
           ELSE IF length = 1
           THEN /\ err' = "error"
                /\ pos' = pos + 8
                /\ ret' = <<>>
                /\ UNCHANGED <<stack, atoms>>
           ELSE IF name \in _CONTAINERS
           THEN /\ stack' = Append(stack, NewAtom(offset, length, name, FALSE, <<>>))
                /\ pos' = offset + 8 + _SKIP_SIZE(name)
                /\ ret' = <<>>
                /\ UNCHANGED <<atoms, err>>
           ELSE LET a == NewAtom(offset, length, name, TRUE, <<>>)
                IN  /\ pos' = LeafSeek(offset, length)
                    /\ ret' = <<a>>
                    /\ IF stack = <<>>
                       THEN /\ atoms' = Append(atoms, a)
                            /\ UNCHANGED stack
                       ELSE /\ stack' = [stack EXCEPT ![Len(stack)].children = Append(@, a)]
                            /\ UNCHANGED atoms
                    /\ UNCHANGED err
    /\ UNCHANGED <<data, pc, info, tags, todo, last, values, pending, out, input, first>>

\* Atom.__init__ of a container returns: its child loop has ended
AtomReturn ==
    /\ pc = "Atoms"
    /\ err = ""
    /\ stack # <<>>
    /\ ~InContainer(pos, stack[Len(stack)])
    /\ LET a == stack[Len(stack)]
           rest == SubSeq(stack, 1, Len(stack) - 1)
       IN  /\ ret' = <<a>>
           /\ IF rest = <<>>
              THEN /\ atoms' = Append(atoms, a)
                   /\ stack' = rest
              ELSE /\ stack' = [rest EXCEPT ![Len(rest)].children = Append(@, a)]
                   /\ UNCHANGED atoms
    /\ UNCHANGED <<data, pos, pc, err, info, tags, todo, last, values, pending,
                   out, input, first>>

\* Atoms.__init__ returns: the cursor has reached the end of the file
AtomsDone ==
    /\ pc = "Atoms"
    /\ err = ""
    /\ stack = <<>>
    /\ ~InFile(pos)
    /\ pc' = "M4AInfo"
    /\ ret' = <<>>
    /\ UNCHANGED <<data, pos, stack, atoms, err, info, tags, todo, last, values,
                   pending, out, input, first>>

RECURSIVE Resolve(_, _)
\* Atoms.__getitem__ and Atom.__getitem__: <<atom>>, or <<>> for KeyError
Resolve(children, names) ==
    LET match == {i \in 1..Len(children) : children[i].name = names[1]}
        child == children[CHOOSE i \in match : \A j \in match : i <= j]
    IN  IF match = {} THEN <<>>
        ELSE IF Len(names) = 1 THEN <<child>>
        ELSE IF child.leaf THEN <<>>
        ELSE Resolve(child.children, Tail(names))

-----------------------------------------------------------------------------
(* M4AInfo *)

mdhdPath == <<moov, trak, mdia, mdhd>>

\* ord(data[9]): the byte that selects the layout
VersionByte(d) == d[10]

\* a mutation: the 64-bit layout starts where the 32-bit one does
LayoutOffset_Same(version) == 20

\* offset = 20 or 28
LayoutOffset(version) == IF version = 0 THEN 20 ELSE 28

\* struct.calcsize(">2I") = 8 and struct.calcsize(">IQ") = 12
LayoutSize(version) == IF version = 0 THEN 8 ELSE 12

\* M4AInfo.__init__ on the bytes read for the mdhd atom: the error raised, or
\* the operands of float(length) / unit
ReadInfo(d) ==
    IF Len(d) < 10 THEN [err |-> "IndexError"]
    ELSE LET version == VersionByte(d)
             offset == LayoutOffset(version)
             end == offset + LayoutSize(version)
             fields == Slice(d, offset, end)
             unit == UnpackBE(Slice(fields, 0, 4))
             length == UnpackBE(From(fields, 4))
         IN  IF Len(fields) # LayoutSize(version) THEN [err |-> "struct.error"]
             ELSE IF unit = 0 THEN [err |-> "ZeroDivisionError"]
             ELSE [err |-> "", length |-> length, unit |-> unit]

\* M4AInfo(atoms, fileobj), called by M4A.__init__ after Atoms(fileobj)
M4AInfoInit ==
    /\ pc = "M4AInfo"
    /\ err = ""
    /\ LET found == Resolve(atoms, mdhdPath)
       IN  IF found = <<>>
           THEN /\ err' = "KeyError"
                /\ UNCHANGED <<pos, info, pc>>
           ELSE LET atom == found[1]
                    d == Read(data, atom.offset, atom.length)
                    r == ReadInfo(d)
                IN  /\ pos' = atom.offset + Len(d)
                    /\ IF r.err # ""
                       THEN /\ err' = r.err
                            /\ UNCHANGED <<info, pc>>
                       ELSE /\ info' = <<[length |-> r.length, unit |-> r.unit]>>
                            /\ pc' = "M4ATags"
                            /\ UNCHANGED err
    /\ UNCHANGED <<data, stack, atoms, ret, tags, todo, last, values, pending,
                   out, input, first>>

-----------------------------------------------------------------------------
(* M4ATags: the mapping *)

Value(kind, v) == [kind |-> kind, v |-> v]

HasKey(t, key) == \E i \in 1..Len(t) : t[i].key = key

Get(t, key) == t[CHOOSE i \in 1..Len(t) : t[i].key = key].value

\* self[key] = value
SetItem(t, key, value) ==
    IF HasKey(t, key)
    THEN [i \in 1..Len(t) |-> IF t[i].key = key THEN [key |-> key, value |-> value]
                                                 ELSE t[i]]
    ELSE Append(t, [key |-> key, value |-> value])

Stored(t) == [err |-> "", tags |-> t]

Raised(e) == [err |-> e]

\* cdata.uint_be, cdata.short_be: the number, or <<>> when the string is short
uint_be(bs) == IF Len(bs) = 4 THEN <<UnpackBE(bs)>> ELSE <<>>

short_be(bs) == IF Len(bs) = 2 THEN <<UnpackBE(bs)>> ELSE <<>>

to_uint_be(n) == PackBE(n, 4)

to_ushort_be(n) == PackBE(n, 2)

\* unicode.encode('utf-8') of one code point below 0x10000
EncodePoint(c) ==
    IF c < 128 THEN <<c>>
    ELSE IF c < 2048 THEN <<192 + (c \div 64), 128 + (c % 64)>>
    ELSE <<224 + (c \div 4096), 128 + ((c \div 64) % 64), 128 + (c % 64)>>

RECURSIVE Utf8Encode(_)
Utf8Encode(text) ==
    IF text = <<>> THEN <<>> ELSE EncodePoint(Head(text)) \o Utf8Encode(Tail(text))

Continuation(b) == b >= 128 /\ b <= 191

RECURSIVE Utf8Decode(_)
\* str.decode('utf-8', 'replace'): an undecodable byte becomes U+FFFD
Utf8Decode(bs) ==
    IF bs = <<>> THEN <<>>
    ELSE LET b == bs[1]
         IN  IF b < 128 THEN <<b>> \o Utf8Decode(Tail(bs))
             ELSE IF b >= 194 /\ b <= 223 /\ Len(bs) >= 2 /\ Continuation(bs[2])
             THEN <<(b - 192) * 64 + (bs[2] - 128)>> \o Utf8Decode(From(bs, 2))
             ELSE IF /\ b >= 224 /\ b <= 239 /\ Len(bs) >= 3
                     /\ Continuation(bs[2]) /\ Continuation(bs[3])
                     /\ (b - 224) * 4096 + (bs[2] - 128) * 64 >= 2048
             THEN <<(b - 224) * 4096 + (bs[2] - 128) * 64 + (bs[3] - 128)>>
                      \o Utf8Decode(From(bs, 3))
             ELSE <<65533>> \o Utf8Decode(Tail(bs))

\* mutagen._constants.GENRES (its first names)
GENRES ==
    << <<66, 108, 117, 101, 115>>,
       <<67, 108, 97, 115, 115, 105, 99, 32, 82, 111, 99, 107>>,
       <<67, 111, 117, 110, 116, 114, 121>> >>

-----------------------------------------------------------------------------
(* M4ATags: the decoders *)

\* a mutation: the flags of mean and name are taken for text
SubText_NoSkip(record) == From(record, 4)

\* fileobj.read(length - 4)[8:]: the text of a mean or name sub-record
SubText(record) == From(record, 8)

__parse_freeform(t, atom, d) ==
    LET l1 == Read(d, 0, 4)
        mean_length == uint_be(l1)
        r1 == Read(d, 4, mean_length[1] - 4)
        p1 == 4 + Len(r1)
        l2 == Read(d, p1, 4)
        name_length == uint_be(l2)
        r2 == Read(d, p1 + 4, name_length[1] - 4)
        p2 == p1 + 4 + Len(r2)
        l3 == Read(d, p2, 4)
        value_length == uint_be(l3)
        r3 == Read(d, p2 + 4, value_length[1] - 4)
        key == atom.name \o colon \o SubText(r1) \o colon \o SubText(r2)
    IN  IF mean_length = <<>> THEN Raised("struct.error")
        ELSE IF name_length = <<>> THEN Raised("struct.error")
        ELSE IF value_length = <<>> THEN Raised("struct.error")
        ELSE Stored(SetItem(t, key, Value("bytes", From(r3, 12))))

__parse_pair(t, atom, d) ==
    LET fields == Slice(d, 18, 22)
    IN  IF Len(fields) # 4 THEN Raised("struct.error")
        ELSE Stored(SetItem(t, atom.name,
                 Value("pair", <<UnpackBE(Slice(fields, 0, 2)),
                                 UnpackBE(Slice(fields, 2, 4))>>)))

\* a mutation: the name is stored whether or not a genre is there
GenreAbsent_Always(t) == TRUE

\* "\xa9gen" not in self
GenreAbsent(t) == ~HasKey(t, gen)

\* GENRES[genre - 1] with Python's indexing: <<name>>, or <<>> for IndexError
GenreName(genre) ==
    LET i == genre - 1
    IN  IF i >= 0 /\ i < Len(GENRES) THEN <<GENRES[i + 1]>>
        ELSE IF i < 0 /\ 0 - i <= Len(GENRES) THEN <<GENRES[Len(GENRES) + i + 1]>>
        ELSE <<>>

__parse_genre(t, atom, d) ==
    LET genre == short_be(Slice(d, 16, 18))
    IN  IF genre = <<>> THEN Raised("struct.error")
        ELSE IF GenreAbsent(t) /\ GenreName(genre[1]) # <<>>
        THEN Stored(SetItem(t, gen, Value("text", GenreName(genre[1])[1])))
        ELSE Stored(t)

__parse_tempo(t, atom, d) ==
    LET tempo == short_be(Slice(d, 16, 18))
    IN  IF tempo = <<>> THEN Raised("struct.error")
        ELSE Stored(SetItem(t, atom.name, Value("int", tempo)))

\* bool(ord(data[16:17])), and False on TypeError: 1 for True, 0 for False
Flag(d) == IF Slice(d, 16, 17) = <<>> THEN 0 ELSE IF d[17] # 0 THEN 1 ELSE 0

__parse_compilation(t, atom, d) ==
    Stored(SetItem(t, atom.name, Value("bool", <<Flag(d)>>)))

__parse_cover(t, atom, d) ==
    Stored(SetItem(t, atom.name, Value("bytes", From(d, 16))))

__parse_text(t, atom, d) ==
    Stored(SetItem(t, atom.name, Value("text", Utf8Decode(From(d, 16)))))

\* self.atoms.get(last, (M4ATags.__parse_text,))[0](self, atom, data)
Parse(t, atom, d) ==
    CASE atom.name = freeform -> __parse_freeform(t, atom, d)
      [] atom.name \in {trkn, disk} -> __parse_pair(t, atom, d)
      [] atom.name = gnre -> __parse_genre(t, atom, d)
      [] atom.name = tmpo -> __parse_tempo(t, atom, d)
      [] atom.name = cpil -> __parse_compilation(t, atom, d)
      [] atom.name = covr -> __parse_cover(t, atom, d)
      [] OTHER -> __parse_text(t, atom, d)

ilstPath == <<moov, udta, meta, ilst>>

\* fileobj.seek(atom.offset + 8)
PayloadStart(atom) == atom.offset + 8

\* M4ATags.__init__: atoms["moov.udta.meta.ilst"].children
M4ATagsInit ==
    /\ pc = "M4ATags"
    /\ err = ""
    /\ LET found == Resolve(atoms, ilstPath)
       IN  IF found = <<>>
           THEN /\ err' = "KeyError"
                /\ UNCHANGED <<todo, pc>>
           ELSE /\ todo' = found[1].children
                /\ pc' = "M4ATags.for"
                /\ UNCHANGED err
    /\ UNCHANGED <<data, pos, stack, atoms, ret, info, tags, last, values,
                   pending, out, input, first>>

\* one turn of the loop of M4ATags.__init__
M4ATagsAtom ==
    /\ pc = "M4ATags.for"
    /\ err = ""
    /\ todo # <<>>
    /\ LET atom == Head(todo)
           d == Read(data, PayloadStart(atom), atom.length - 8)
           r == Parse(tags, atom, d)
       IN  /\ last' = atom.name
           /\ pos' = PayloadStart(atom) + Len(d)
           /\ todo' = Tail(todo)
           /\ IF r.err # ""
              THEN /\ err' = r.err
                   /\ UNCHANGED tags
              ELSE /\ tags' = r.tags
                   /\ UNCHANGED err
    /\ UNCHANGED <<data, stack, atoms, ret, pc, info, values, pending, out,
                   input, first>>

\* M4ATags.__init__ and M4A.__init__ return
M4ALoaded ==
    /\ pc = "M4ATags.for"
    /\ err = ""
    /\ todo = <<>>
    /\ pc' = "M4A"
    /\ UNCHANGED <<data, pos, stack, atoms, ret, err, info, tags, todo, last,
                   values, pending, out, input, first>>

-----------------------------------------------------------------------------
(* M4ATags: the encoders *)

\* a mutation: the data sub-box does not count its own header
DataLength_Short(body) == Len(body)

\* len(data) + 8 of the data sub-box
DataLength(body) == Len(body) + 8

__render_data(key, flags, d) ==
    LET body == PackBE(flags, 4) \o PackBE(0, 4) \o d
        sub == to_uint_be(DataLength(body)) \o dataCode \o body
    IN  to_uint_be(Len(sub) + 8) \o key \o sub

RECURSIVE Find(_, _, _)
\* str.find(c, i) over 1-based positions: the position of byte c from i on, or 0
Find(s, c, i) ==
    IF i > Len(s) THEN 0 ELSE IF s[i] = c THEN i ELSE Find(s, c, i + 1)

\* key.split(":", 2): the three parts, or <<>> when there are fewer
Split2(key) ==
    LET i == Find(key, colon[1], 1)
        j == IF i = 0 THEN 0 ELSE Find(key, colon[1], i + 1)
    IN  IF j = 0 THEN <<>>
        ELSE <<SubSeq(key, 1, i - 1), SubSeq(key, i + 1, j - 1), From(key, j)>>

\* len(final) + 8
FreeformLength(final) == Len(final) + 8

__render_freeform(key, value) ==
    LET parts == Split2(key)
        mean == PackBE(Len(parts[2]) + 12, 4) \o meanCode \o PackBE(0, 4) \o parts[2]
        name == PackBE(Len(parts[3]) + 12, 4) \o nameCode \o PackBE(0, 4) \o parts[3]
        val == PackBE(Len(value.v) + 16, 4) \o dataCode \o PackBE(1, 4)
                   \o PackBE(0, 4) \o value.v
        final == mean \o name \o val
    IN  IF parts = <<>> THEN Raised("ValueError")
        ELSE [err |-> "", block |-> PackBE(FreeformLength(final), 4) \o freeform \o final]

\* struct.pack(">4H", 0, 0, 0, track, total, 0): six values for four fields
__render_pair(key, value) == Raised("struct.error")

__render_tempo(key, value) ==
    [err |-> "", block |-> __render_data(key, 21, to_ushort_be(value.v[1]))]

__render_compilation(key, value) ==
    IF value.v[1] # 0
    THEN [err |-> "", block |-> __render_data(key, 21, <<1>>)]
    ELSE [err |-> "", block |-> <<>>]

__render_cover(key, value) ==
    [err |-> "", block |-> __render_data(key, 13, value.v)]

__render_text(key, value) ==
    [err |-> "", block |-> __render_data(key, 1, Utf8Encode(value.v))]

\* self.atoms.get(key[:4], (None, M4ATags.__render_text))[1](self, key, value)
Render(key, value) ==
    LET code == Slice(key, 0, 4)
    IN  CASE code = freeform -> __render_freeform(key, value)
          [] code \in {trkn, disk} -> __render_pair(key, value)
          [] code = gnre -> Raised("TypeError")
          [] code = tmpo -> __render_tempo(key, value)
          [] code = cpil -> __render_compilation(key, value)
          [] code = covr -> __render_cover(key, value)
          [] OTHER -> __render_text(key, value)

\* M4ATags.__render is called on the loaded tags
RenderCall ==
    /\ pc = "M4A"
    /\ err = ""
    /\ pc' = "__render"
    /\ pending' = tags
    /\ values' = <<>>
    /\ UNCHANGED <<data, pos, stack, atoms, ret, err, info, tags, todo, last,
                   out, input, first>>

\* one turn of the loop of __render
RenderEntry ==
    /\ pc = "__render"
    /\ err = ""
    /\ pending # <<>>
    /\ LET r == Render(Head(pending).key, Head(pending).value)
       IN  IF r.err # ""
           THEN /\ err' = r.err
                /\ UNCHANGED <<values, pending>>
           ELSE /\ values' = Append(values, r.block)
                /\ pending' = Tail(pending)
                /\ UNCHANGED err
    /\ UNCHANGED <<data, pos, stack, atoms, ret, pc, info, tags, todo, last,
                   out, input, first>>

\* __render returns "".join(values)
RenderJoin ==
    /\ pc = "__render"
    /\ err = ""
    /\ pending = <<>>
    /\ out' = <<Join(values)>>
    /\ pc' = "rendered"
    /\ UNCHANGED <<data, pos, stack, atoms, ret, err, info, tags, todo, last,
                   values, pending, input, first>>

-----------------------------------------------------------------------------
(* The files and mappings the runs start from *)

Header(length, name) == PackBE(length, 4) \o name

Box(name, payload) == Header(8 + Len(payload), name) \o payload

\* the layout of a tag's data sub-box in a file
DataBox(flags, d) == Box(dataCode, PackBE(flags, 4) \o PackBE(0, 4) \o d)

\* a media header in the 32-bit layout (28 bytes) or the 64-bit one (40 bytes)
Mdhd(version, unit, length) ==
    IF version = 0
    THEN Box(mdhd, <<0, 0, 0, 0>> \o Zeros(8) \o PackBE(unit, 4) \o PackBE(length, 4))
    ELSE Box(mdhd, <<0, version, 0, 0>> \o Zeros(16) \o PackBE(unit, 4)
                       \o PackBE(length, 8))

\* a whole file: the track's media header, then the tags
File(track, children) ==
    Box(moov, track \o Box(udta, Box(meta, Zeros(4) \o Box(ilst, children))))

Track(header) == Box(trak, Box(mdia, header))

AtomLengths == {0, 8, 12, 16, 20}

Chunks ==
    {Header(l, n) : l \in AtomLengths, n \in {free, moov, meta}}
        \cup {Header(1, free), Header(4, free), Zeros(4)}

RECURSIVE ChunkFiles(_)
ChunkFiles(n) ==
    IF n = 0 THEN {<<>>}
    ELSE LET shorter == ChunkFiles(n - 1)
         IN  shorter \cup {f \o c : f \in shorter, c \in Chunks}

Units == {0, 1, 1000, 44100}

Lengths == {0, 5000, 16777216, 2147483647}

Headers ==
    {[version |-> v, unit |-> u, length |-> l] : v \in {0, 1}, u \in Units, l \in Lengths}

\* media headers cut short, or declared shorter than the layout
ShortHeaders ==
    {Header(9, mdhd) \o <<0>>,
     Header(24, mdhd) \o Zeros(16),
     Header(28, mdhd) \o <<0, 1>> \o Zeros(18),
     Header(40, mdhd) \o <<0, 1>> \o Zeros(22),
     Header(0, mdhd)}

\* tag atoms as files hold them
Children ==
    {Box(gnre, DataBox(0, PackBE(i, 2))) : i \in {0, 1, 3, 4}}
        \cup {Box(gnre, DataBox(0, <<>>)),
              Box(gen, DataBox(1, <<82, 111, 99, 107>>)),
              Box(nam, DataBox(1, <<65, 255>>)),
              Box(cpil, DataBox(21, <<1>>)),
              Box(cpil, DataBox(21, <<0>>)),
              Box(cpil, DataBox(21, <<>>)),
              Box(cpil, <<>>),
              Header(4, cpil) \o DataBox(21, <<1>>),
              Box(trkn, DataBox(0, PackBE(0, 2) \o PackBE(1, 2) \o PackBE(2, 2)
                                       \o PackBE(0, 2))),
              Box(tmpo, DataBox(21, PackBE(120, 2))),
              Box(covr, DataBox(13, <<137, 80>>))}

RECURSIVE Lists(_, _)
\* the sequences of at most n members of S
Lists(S, n) ==
    IF n = 0 THEN {<<>>}
    ELSE LET shorter == Lists(S, n - 1)
         IN  shorter \cup {Append(l, x) : l \in shorter, x \in S}

Entry(key, value) == [key |-> key, value |-> value]

\* "----:com.example:custom"
customKey ==
    freeform \o colon \o <<99, 111, 109, 46, 101, 120, 97, 109, 112, 108, 101>>
        \o colon \o <<99, 117, 115, 116, 111, 109>>

\* "----:a:b:c"
nestedKey == freeform \o colon \o <<97>> \o colon \o <<98, 58, 99>>

hello == <<104, 101, 108, 108, 111>>

Entries ==
    {Entry(nam, Value("text", <<65>>)),
     Entry(gen, Value("text", <<233, 8364>>)),
     Entry(trkn, Value("pair", <<1, 2>>)),
     Entry(tmpo, Value("int", <<120>>)),
     Entry(cpil, Value("bool", <<1>>)),
     Entry(cpil, Value("bool", <<0>>)),
     Entry(covr, Value("bytes", <<137, 80>>)),
     Entry(covr, Value("bytes", <<>>)),
     Entry(customKey, Value("bytes", hello)),
     Entry(nestedKey, Value("bytes", <<>>))}

DistinctKeys(t) == \A i, j \in 1..Len(t) : t[i].key = t[j].key => i = j

Mappings == {t \in Lists(Entries, MaxTags) : DistinctKeys(t)}

standardTrack == Track(Mdhd(0, 1000, 5000))

\* a file of boxes, well formed or not
InitBoxes ==
    /\ data \in ChunkFiles(MaxBoxes)
    /\ input = [kind |-> "boxes"]
    /\ pc = "Atoms"
    /\ tags = <<>>
    /\ pending = <<>>

\* a file with a media header in either layout, or a short one, and no tags
InitHeader ==
    /\ \/ \E h \in Headers :
             /\ data = File(Track(Mdhd(h.version, h.unit, h.length)), <<>>)
             /\ input = [kind |-> "mdhd", version |-> h.version, unit |-> h.unit,
                         length |-> h.length]
       \/ \E h \in ShortHeaders :
             /\ data = File(Track(h), <<>>)
             /\ input = [kind |-> "short mdhd"]
    /\ pc = "Atoms"
    /\ tags = <<>>
    /\ pending = <<>>

\* a file with tag atoms
InitChildren ==
    /\ \E l \in Lists(Children, MaxTags) :
          /\ data = File(standardTrack, Join(l))
          /\ input = [kind |-> "ilst", children |-> l]
    /\ pc = "Atoms"
    /\ tags = <<>>
    /\ pending = <<>>

\* a tag mapping about to be rendered
InitMapping ==
    /\ tags \in Mappings
    /\ input = [kind |-> "mapping", tags |-> tags]
    /\ pending = tags
    /\ data = <<>>
    /\ pc = "__render"

Init ==
    /\ InitBoxes \/ InitHeader \/ InitChildren \/ InitMapping
    /\ pos = 0
    /\ stack = <<>>
    /\ atoms = <<>>
    /\ ret = <<>>
    /\ err = ""
    /\ info = <<>>
    /\ todo = <<>>
    /\ last = <<>>
    /\ values = <<>>
    /\ out = <<>>
    /\ first = <<>>

\* the rendered tags are put in a file, and the file is loaded: M4A(filename)
Reload ==
    /\ pc = "rendered"
    /\ input.kind = "mapping"
    /\ first = <<>>
    /\ first' = out
    /\ data' = File(standardTrack, out[1])
    /\ pos' = 0
    /\ atoms' = <<>>
    /\ tags' = <<>>
    /\ values' = <<>>
    /\ out' = <<>>
    /\ pc' = "Atoms"
    /\ UNCHANGED <<stack, ret, err, info, todo, last, pending, input>>

Next ==
    \/ AtomInit
    \/ AtomReturn
    \/ AtomsDone
    \/ M4AInfoInit
    \/ M4ATagsInit
    \/ M4ATagsAtom
    \/ M4ALoaded
    \/ RenderCall
    \/ RenderEntry
    \/ RenderJoin
    \/ Reload

Spec == Init /\ [][Next]_vars

-----------------------------------------------------------------------------
(* Properties *)

RECURSIVE WellFormedBoxes(_, _, _)
\* bytes[from..to) is a concatenation of well-formed boxes: each has room for
\* its header, lies within the range, and, when its code is a container's,
\* holds its header-only bytes and a concatenation of well-formed boxes
WellFormedBoxes(bytes, from, to) ==
    \/ from = to
    \/ /\ from + 8 <= to
       /\ LET length == UnpackBE(Slice(bytes, from, from + 4))
              name == Slice(bytes, from + 4, from + 8)
              skip == IF name = meta THEN 4 ELSE 0
          IN  /\ length >= 8
              /\ from + length <= to
              /\ name \in _CONTAINERS =>
                    /\ 8 + skip <= length
                    /\ WellFormedBoxes(bytes, from + 8 + skip, from + length)
              /\ WellFormedBoxes(bytes, from + length, to)

WellFormed == WellFormedBoxes(data, 0, Len(data))

RECURSIVE SumLengths(_)
SumLengths(list) ==
    IF list = <<>> THEN 0 ELSE Head(list).length + SumLengths(Tail(list))

\* Atoms(fileobj) has returned
AtomsBuilt == pc \in {"M4AInfo", "M4ATags", "M4ATags.for", "M4A"}

\* C2: for a source that is a concatenation of well-formed boxes, once the
\* atom tree is built the lengths of the top-level atoms sum to the length of
\* the source, and each top-level atom's offset is the sum of the lengths of
\* the top-level atoms before it.
AtomParseExhaustive ==
    (AtomsBuilt /\ WellFormed) =>
        /\ SumLengths(atoms) = Len(data)
        /\ \A i \in 1..Len(atoms) :
              atoms[i].offset = SumLengths(SubSeq(atoms, 1, i - 1))

AtomParseExhaustiveWitness ==
    /\ pc = "M4AInfo"
    /\ input.kind = "boxes"
    /\ WellFormed
    /\ Len(atoms) = 2
    /\ ~atoms[1].leaf
    /\ atoms[1].children # <<>>

\* C9 as stated: after any Atom is constructed the cursor is exactly at the
\* atom's offset + length.
CursorAtBoundary ==
    ret # <<>> => pos = ret[1].offset + ret[1].length

\* C9 as amended: after any Atom is constructed the cursor is never before
\* the atom's offset + length; it is exactly there for every leaf, and for
\* every container when the source is a concatenation of well-formed boxes.
CursorNotBeforeBoundary ==
    ret # <<>> =>
        /\ pos >= ret[1].offset + ret[1].length
        /\ ret[1].leaf => pos = ret[1].offset + ret[1].length
        /\ WellFormed => pos = ret[1].offset + ret[1].length

CursorNotBeforeBoundaryWitness ==
    /\ ret # <<>>
    /\ WellFormed
    /\ stack # <<>>
    /\ ret[1].name = meta
    /\ ret[1].children # <<>>
    /\ pos = ret[1].offset + ret[1].length

\* C10: every Atom construction that returns leaves the cursor strictly
\* beyond the atom's own offset, so the loops that call it end.
CursorAdvances ==
    ret # <<>> => pos > ret[1].offset

\* C8: when M4AInfo fails, the error is M4AStreamInfoError and no duration
\* is set.
InfoFailsWithStreamInfoError ==
    (pc = "M4AInfo" /\ err # "") => (err = "M4AStreamInfoError" /\ info = <<>>)

\* C5: a media header that holds time-scale u > 0 and duration d, in the
\* 32-bit layout (byte 9 is 0, fields at 20) or in the 64-bit one (byte 9 is
\* not 0, fields at 28), gives the operands d and u of the division, the same
\* in both layouts; u = 1000 and d = 5000 give 5.
DurationBothLayouts ==
    (input.kind = "mdhd" /\ input.unit > 0) =>
        /\ pc = "M4AInfo" => err = ""
        /\ (AtomsBuilt /\ pc # "M4AInfo") =>
              /\ info = <<[length |-> input.length, unit |-> input.unit]>>
              /\ (input.unit = 1000 /\ input.length = 5000) =>
                    info[1].length = 5 * info[1].unit

DurationBothLayoutsWitness ==
    /\ input.kind = "mdhd"
    /\ input.version = 1
    /\ input.unit = 1000
    /\ input.length = 5000
    /\ info = <<[length |-> 5000, unit |-> 1000]>>

\* the children of the ilst atom, and the one the loop has just decoded
ilstChildren == Resolve(atoms, ilstPath)[1].children

Decoded == ilstChildren[Len(ilstChildren) - Len(todo)]

\* the loop of M4ATags.__init__ is about to decode a gnre atom
AtGenre ==
    /\ pc = "M4ATags.for"
    /\ err = ""
    /\ todo # <<>>
    /\ Head(todo).name = gnre

\* the index a gnre atom holds at bytes 16..18 of its payload
GenreIndex(atom) ==
    UnpackBE(Slice(Read(data, atom.offset + 8, atom.length - 8), 16, 18))

\* C6: decoding a gnre atom leaves the mapping unchanged when a textual genre
\* is present; when none is present and the index i is within the table, it
\* sets the textual genre to the i-th name; and no step stores a gnre key.
LegacyGenre ==
    /\ [](~HasKey(tags, gnre))
    /\ [][AtGenre =>
            /\ HasKey(tags, gen) => tags' = tags
            /\ (/\ ~HasKey(tags, gen)
                /\ Len(Slice(Read(data, Head(todo).offset + 8,
                                  Head(todo).length - 8), 16, 18)) = 2
                /\ GenreIndex(Head(todo)) \in 1..Len(GENRES)) =>
                  /\ err' = ""
                  /\ tags' = Append(tags,
                         Entry(gen, Value("text", GENRES[GenreIndex(Head(todo))])))
         ]_vars

LegacyGenreWitness ==
    /\ pc = "M4ATags.for"
    /\ err = ""
    /\ last = gnre
    /\ todo = <<>>
    /\ Len(ilstChildren) = 2
    /\ ilstChildren[1].name = gnre
    /\ GenreIndex(ilstChildren[1]) = 1
    /\ GenreIndex(ilstChildren[2]) = 3
    /\ tags = <<Entry(gen, Value("text", GENRES[1]))>>

\* C7: a true flag rendered and decoded is true; a false flag renders to no
\* bytes; a cpil atom whose payload is too short for the byte at offset 16
\* decodes to false; and with no cpil atom the flag is not true.
CompilationFlag ==
    /\ (input.kind = "mapping" /\ pc = "M4A"
            /\ \E i \in 1..Len(input.tags) :
                  input.tags[i] = Entry(cpil, Value("bool", <<1>>))) =>
          (HasKey(tags, cpil) /\ Get(tags, cpil) = Value("bool", <<1>>))
    /\ (input.kind = "mapping" /\ pc = "rendered"
            /\ input.tags = <<Entry(cpil, Value("bool", <<0>>))>>) =>
          out = << <<>> >>
    /\ (pc = "M4ATags.for" /\ err = "" /\ last = cpil /\ Decoded.length - 8 < 17) =>
          Get(tags, cpil) = Value("bool", <<0>>)
    /\ (pc = "M4A" /\ \A i \in 1..Len(ilstChildren) : ilstChildren[i].name # cpil) =>
          ~(HasKey(tags, cpil) /\ Get(tags, cpil) = Value("bool", <<1>>))

\* the length field of the data sub-box of a rendered block: the third
\* sub-record of a free-form block, the only sub-box of any other
DataSubBoxLength(b) ==
    IF Slice(b, 4, 8) = freeform
    THEN LET l1 == UnpackBE(Slice(b, 8, 12))
             l2 == UnpackBE(Slice(b, 8 + l1, 12 + l1))
         IN  UnpackBE(Slice(b, 8 + l1 + l2, 12 + l1 + l2))
    ELSE UnpackBE(Slice(b, 8, 12))

\* the length fields of the sub-records of a free-form block, summed
SubRecordLengths(b) ==
    LET l1 == UnpackBE(Slice(b, 8, 12))
        l2 == UnpackBE(Slice(b, 8 + l1, 12 + l1))
    IN  l1 + l2 + UnpackBE(Slice(b, 8 + l1 + l2, 12 + l1 + l2))

RECURSIVE SumLengthFields(_)
SumLengthFields(blocks) ==
    IF blocks = <<>> THEN 0
    ELSE (IF Head(blocks) = <<>> THEN 0 ELSE UnpackBE(Slice(Head(blocks), 0, 4)))
             + SumLengthFields(Tail(blocks))

\* C3 as stated: the length field of every rendered block is the block's
\* byte count, the length field of its data sub-box is that count minus 8,
\* and the length fields of the blocks sum to the length of the output.
BlockLengthsAndDataSubBox ==
    /\ \A i \in 1..Len(values) :
          values[i] # <<>> =>
              /\ UnpackBE(Slice(values[i], 0, 4)) = Len(values[i])
              /\ DataSubBoxLength(values[i]) = Len(values[i]) - 8
    /\ out # <<>> => SumLengthFields(values) = Len(out[1])

\* C3 as amended: the length field of every rendered block is the block's
\* byte count; the length field of the data sub-box is that count minus 8 in
\* every block but a free-form one, where the length fields of the mean, name
\* and data sub-records sum to that count minus 8; and the length fields of
\* the blocks sum to the length of the output.
BlockLengths ==
    /\ \A i \in 1..Len(values) :
          values[i] # <<>> =>
              /\ UnpackBE(Slice(values[i], 0, 4)) = Len(values[i])
              /\ IF Slice(values[i], 4, 8) = freeform
                 THEN SubRecordLengths(values[i]) = Len(values[i]) - 8
                 ELSE /\ DataSubBoxLength(values[i]) = Len(values[i]) - 8
                      /\ Slice(values[i], 12, 16) = dataCode
    /\ out # <<>> => SumLengthFields(values) = Len(out[1])

BlockLengthsWitness ==
    /\ pc = "rendered"
    /\ Len(values) = 2
    /\ Slice(values[1], 4, 8) = freeform
    /\ Slice(values[2], 4, 8) = nam
    /\ out = <<values[1] \o values[2]>>

\* C4: the block rendered for a free-form key '----:mean:name' is 8 bytes,
\* the mean, name and data sub-records long, its decoder stores the same key
\* with the same value from the block's payload, and so does loading a file
\* that holds the block.
FreeformRoundTrip ==
    /\ pc \in {"__render", "rendered"} =>
          \A i \in 1..Len(values) :
              Slice(tags[i].key, 0, 4) = freeform =>
                  /\ Len(values[i]) = 8 + (12 + Len(Split2(tags[i].key)[2]))
                                        + (12 + Len(Split2(tags[i].key)[3]))
                                        + (16 + Len(tags[i].value.v))
                  /\ Len(values[i]) = 8 + SubRecordLengths(values[i])
                  /\ __parse_freeform(<<>>, [name |-> Slice(values[i], 4, 8)],
                                      From(values[i], 8))
                         = Stored(<<tags[i]>>)
    /\ (input.kind = "mapping" /\ pc = "M4A") =>
          \A i \in 1..Len(input.tags) :
              Slice(input.tags[i].key, 0, 4) = freeform =>
                  /\ HasKey(tags, input.tags[i].key)
                  /\ Get(tags, input.tags[i].key) = input.tags[i].value

FreeformRoundTripWitness ==
    /\ input.kind = "mapping"
    /\ pc = "M4A"
    /\ HasKey(tags, customKey)
    /\ Get(tags, customKey) = Value("bytes", hello)

\* C1: a mapping of the supported kinds renders to a byte string, and the
\* mapping decoded from that byte string renders to the same byte string.
RoundTrip ==
    input.kind = "mapping" =>
        /\ err = ""
        /\ (pc = "rendered" /\ first # <<>>) => out = first

====
